---- MODULE Spec2Model ----
(***************************************************************************)
(* Order / cart / inventory domain of the storefront API.                  *)
(*                                                                         *)
(* The route handlers (backend/routes/order.routes.js, cart.routes.js and  *)
(* the admin bulk route) are modelled from their source.  The Mongoose     *)
(* model methods they call (Cart.addItem, Cart.updateQuantity,             *)
(* Cart.validateStock, Cart.clear, Order.canBeCancelled,                   *)
(* Order.updateStatus, Product.updateStock, ...) live in models/*.js,      *)
(* which is not part of the source tree at hand; they are modelled from    *)
(* the specification's description of them.                                *)
(*                                                                         *)
(* Money is kept exact: every amount is an integer number of 1/10000       *)
(* dollar (so 5.99 is 59900 and a cent is 100), which represents           *)
(* subtotal * 0.08 and subtotal * pct / 100 without loss for prices in     *)
(* whole cents and whole percentages.  Binary floating-point noise of the  *)
(* JavaScript arithmetic is not modelled.                                  *)
(***************************************************************************)
EXTENDS Integers, Sequences, FiniteSets, TLC

(***************************************************************************)
(* Bounds of the model.                                                    *)
(***************************************************************************)
MaxQty    == 2   \* largest quantity of one request / one cart line
MaxItems  == 2   \* largest number of lines in a cart
MaxOrders == 2   \* orders created by run-to-completion checkouts
InitStock == 2   \* inventory.quantity of every product at start
MaxRequests == 4 \* requests served in one behaviour of Spec

(***************************************************************************)
(* Actors and inputs.                                                      *)
(***************************************************************************)
Users      == {"u1", "u2", "admin"}
Shoppers   == {"u1"}                  \* users that issue cart requests in Spec
Procs      == {"r1", "r2"}            \* concurrent requests of SpecStep
ProductIds == {"p1", "p2"}

NoVariant  == "none"
Variants   == {NoVariant, "L"}
NoShipping == "absent"
NoTracking == "notracking"
NoToken    == "notoken"
\* cart.coupon when unset
NoCoupon   == [code |-> "", discount |-> 0, type |-> "none"]
\* the result of Cart.findOne when the user has no Cart document
NoCart     ==
  [exists |-> FALSE, items |-> <<>>, coupon |-> NoCoupon, shippingMethod |-> "standard"]

\* req.user.role, set by protect from the User document
RoleAlwaysAdmin(u) == "admin"
Role(u) == IF u = "admin" THEN "admin" ELSE "user"

\* item.variant?.priceAdjustment || 0
PriceAdjustment(v) == IF v = "L" THEN 50000 ELSE 0

\* body('status').isIn([...]) of PUT /api/orders/:id/status
OrderStatuses ==
  {"pending", "confirmed", "processing", "shipped", "delivered", "cancelled", "returned"}

ProductStatuses == {"active", "archived"}

\* coupons a client sends to POST /api/cart/coupon
Coupons ==
  { [code |-> "TEN",  discount |-> 10,    type |-> "percentage"],
    [code |-> "FIVE", discount |-> 50000, type |-> "fixed"] }

ShippingInputs == {NoShipping, "express"}

\* emails of the accounts of the auth routes
Emails == {"e1", "e2"}

\* values crypto.randomBytes(32).toString('hex') can yield, and the tokens a
\* client can put into a URL
Tokens == {"t1", "t2"}

\* the result of Wishlist.findOne when the user has no Wishlist document
NoWishlist ==
  [exists |-> FALSE, items |-> {}, isPublic |-> FALSE, shareToken |-> NoToken]

\* the result of User.findOne when no account has the email
NoAccount ==
  [exists |-> FALSE, verificationToken |-> NoToken, resetPasswordToken |-> NoToken,
   isLocked |-> FALSE, loginAttempts |-> 0]

\* await sendEmail(...): utils/email.js either resolves or rethrows the
\* transport's error (its "fixed" variant always resolves)
MailOutcomes == {"sent", "threw"}

VARIABLES
  products,   \* Product collection: id -> document
  carts,      \* Cart collection: user -> document (exists = FALSE: none yet)
  orders,     \* Order collection, in creation order; the index is the id
  resp,       \* the response of the last completed request
  nreq,       \* number of requests served so far
  pc,         \* step specifications: position of each in-flight request
  loc,        \* step specifications: the local variables of each in-flight request
  wishlists,  \* Wishlist collection: user -> document (exists = FALSE: none yet)
  accounts,   \* User collection: email -> document (exists = FALSE: none)
  extraCarts  \* user -> number of Cart documents of the user beyond carts[user],
              \* the one Cart.findOne({ user }) returns

vars == <<products, carts, orders, resp, nreq, pc, loc, wishlists, accounts, extraCarts>>

(***************************************************************************)
(* Model methods (models/Cart.js, models/Order.js, models/Product.js).     *)
(***************************************************************************)

\* Cart schema defaults: no items, no coupon, shippingMethod 'standard'
NewCart ==
  [exists |-> TRUE, items |-> <<>>, coupon |-> NoCoupon, shippingMethod |-> "standard"]

\* index of the line of `items` for (productId, variant), 0 when absent
FindItem(items, productId, variant) ==
  IF \E i \in 1..Len(items) :
       items[i].product = productId /\ items[i].variant = variant
  THEN CHOOSE i \in 1..Len(items) :
         /\ items[i].product = productId /\ items[i].variant = variant
         /\ \A j \in 1..(i-1) :
              ~(items[j].product = productId /\ items[j].variant = variant)
  ELSE 0

RemoveAt(items, i) ==
  [k \in 1..(Len(items) - 1) |-> IF k < i THEN items[k] ELSE items[k + 1]]

\* Cart.addItem: same product+variant increments, else appends
addItem(cart, productId, quantity, variant) ==
  LET i == FindItem(cart.items, productId, variant) IN
  IF i # 0
  THEN [cart EXCEPT !.items[i].quantity = @ + quantity]
  ELSE [cart EXCEPT !.items =
          Append(@, [product |-> productId, quantity |-> quantity, variant |-> variant])]

\* Cart.updateQuantity: 0 removes the line, otherwise replaces its quantity;
\* silently nothing when the line does not exist
updateQuantity(cart, productId, quantity, variant) ==
  LET i == FindItem(cart.items, productId, variant) IN
  IF i = 0 THEN cart
  ELSE IF quantity = 0 THEN [cart EXCEPT !.items = RemoveAt(@, i)]
  ELSE [cart EXCEPT !.items[i].quantity = quantity]

\* Cart.removeItem: removes the matching line, nothing when absent
removeItem(cart, productId, variant) ==
  LET i == FindItem(cart.items, productId, variant) IN
  IF i = 0 THEN cart ELSE [cart EXCEPT !.items = RemoveAt(@, i)]

\* Cart.applyCoupon / removeCoupon: stores / clears the descriptor verbatim
applyCoupon(cart, coupon) == [cart EXCEPT !.coupon = coupon]
removeCoupon(cart) == [cart EXCEPT !.coupon = NoCoupon]

\* Cart.clear: empties the items and removes the coupon, keeps the document
clear(cart) == [cart EXCEPT !.items = <<>>, !.coupon = NoCoupon]

\* one item of Cart.validateStock against the product document read for it
ItemHasIssue(item, prods) ==
  \/ item.product \notin DOMAIN prods
  \/ LET p == prods[item.product] IN
     \/ p.status # "active"
     \/ /\ p.trackQuantity
        /\ ~p.allowBackorders
        /\ p.quantity < item.quantity

\* Cart.validateStock: the lines with an issue; isValid iff there is none
validateStock(cart, prods) ==
  LET issues == {i \in 1..Len(cart.items) : ItemHasIssue(cart.items[i], prods)}
  IN  [isValid |-> issues = {}, issues |-> issues]

\* Product.updateStock(amount, direction): quantity +/- amount, no bound check
updateStock(p, amount, direction) ==
  IF direction = "decrease"
  THEN [p EXCEPT !.quantity = @ - amount]
  ELSE [p EXCEPT !.quantity = @ + amount]

\* Order.canBeCancelled
canBeCancelled(order) == order.status \in {"pending", "confirmed", "processing"}

\* Order.updateStatus(newStatus): sets the status, no transition table
updateStatus(order, status) == [order EXCEPT !.status = status]

\* a request of Spec is taken up when no other request is in flight
Serve ==
  /\ \A r \in Procs : pc[r] = "idle"
  /\ nreq < MaxRequests
  /\ nreq' = nreq + 1

(***************************************************************************)
(* POST /api/orders (checkout), order.routes.js.                           *)
(***************************************************************************)
TaxRatePct == 8

\* the request parameters recorded with a response that has none to record
NoRequest ==
  [product |-> "", quantity |-> -1, variant |-> "", matched |-> FALSE, token |-> NoToken,
   shipping |-> NoShipping, password |-> ""]

\* res.status(code).json(...) of the request `op` of user u: `order` is the id
\* of the order the request was about (0: none), `issues` the data.issues of a
\* failed stock validation, `req` the parameters of a quantity update, a
\* shared-wishlist read, a checkout (its shippingMethod) or a login, `mail`
\* what the request's sendEmail call did ("none": the request made no such
\* call)
Response(op, u, code, o) ==
  [op |-> op, user |-> u, code |-> code, order |-> o, issues |-> {}, req |-> NoRequest,
   mail |-> "none"]

\* if (!cart || cart.items.length === 0)
CartIsEmpty(cart) == ~cart.exists \/ Len(cart.items) = 0

\* if (!stockValidation.isValid) return 400
StockCheckFailsNever(validation) == FALSE
StockCheckFails(validation) == ~validation.isValid

\* cart.items.map(item => ({...})): the snapshot of one line; `pop` is the
\* product collection as populated into the cart when it was loaded
OrderItem(item, pop) ==
  [ product    |-> item.product,
    price      |-> pop[item.product].price,
    quantity   |-> item.quantity,
    variant    |-> item.variant,
    totalPrice |-> (pop[item.product].price + PriceAdjustment(item.variant)) * item.quantity ]

OrderItems(cart, pop) == [i \in 1..Len(cart.items) |-> OrderItem(cart.items[i], pop)]

\* orderItems.reduce((total, item) => total + item.totalPrice, 0)
RECURSIVE SumTotalPrice(_, _)
SumTotalPrice(items, i) ==
  IF i > Len(items) THEN 0 ELSE items[i].totalPrice + SumTotalPrice(items, i + 1)

Subtotal(items) == SumTotalPrice(items, 1)

\* const tax = subtotal * 0.08  (not rounded)
Tax(subtotal) == (subtotal * TaxRatePct) \div 100

\* shippingRates[shippingMethod || cart.shippingMethod] || 5.99
ShippingMethodUsedCartOnly(shipReq, cart) == cart.shippingMethod
ShippingMethodUsed(shipReq, cart) ==
  IF shipReq # NoShipping THEN shipReq ELSE cart.shippingMethod

\* shippingRates is an object literal: a method that names a property every
\* object inherits ('constructor', 'toString', ...) looks up a function, which
\* is truthy, so the || 5.99 does not apply and shippingCost and total are no
\* numbers; the model carries one such name
InheritedKeys == {"constructor"}
RateIsNumber(method) == method \notin InheritedKeys

ShippingCost(method) ==
  CASE method = "standard"  -> 59900
    [] method = "express"   -> 129900
    [] method = "overnight" -> 249900
    [] OTHER                -> 59900

\* coupon discount
DiscountPercentNotScaled(cart, subtotal) ==
  IF cart.coupon # NoCoupon
  THEN IF cart.coupon.type = "percentage"
       THEN subtotal * cart.coupon.discount
       ELSE cart.coupon.discount
  ELSE 0
Discount(cart, subtotal) ==
  IF cart.coupon # NoCoupon
  THEN IF cart.coupon.type = "percentage"
       THEN (subtotal * cart.coupon.discount) \div 100
       ELSE cart.coupon.discount
  ELSE 0

Total(subtotal, tax, shippingCost, discount) == subtotal + tax + shippingCost - discount

\* Order.create({...}); status takes the schema default 'pending'
NewOrder(u, cart, pop, shipReq) ==
  LET items    == OrderItems(cart, pop)
      subtotal == Subtotal(items)
      tax      == Tax(subtotal)
      shipping == ShippingCost(ShippingMethodUsed(shipReq, cart))
      discount == Discount(cart, subtotal)
  IN  [ user           |-> u,
        items          |-> items,
        shippingMethod |-> ShippingMethodUsed(shipReq, cart),
        subtotal       |-> subtotal,
        tax            |-> tax,
        shippingCost   |-> shipping,
        discount       |-> discount,
        total          |-> Total(subtotal, tax, shipping, discount),
        status         |-> "pending",
        trackingNumber |-> NoTracking ]

\* one round of the inventory loop: findById, updateStock('decrease'), save
DecrementOne(prods, item) ==
  LET p == prods[item.product] IN
  IF p.trackQuantity
  THEN [prods EXCEPT ![item.product] = updateStock(p, item.quantity, "decrease")]
  ELSE prods

\* for (const item of cart.items) { ... }
RECURSIVE DecrementStock(_, _, _)
DecrementStock(items, i, prods) ==
  IF i > Len(items) THEN prods
  ELSE DecrementStock(items, i + 1, DecrementOne(prods, items[i]))

\* await cart.clear()
CartAfterCheckoutKept(cart) == cart
CartAfterCheckout(cart) == clear(cart)

Checkout(u, shipReq) ==
  LET cart == carts[u] IN
  /\ Serve
  /\ IF CartIsEmpty(cart)
     THEN /\ resp' = Response("checkout", u, 400, 0)
          /\ UNCHANGED <<products, carts, orders>>
     ELSE IF StockCheckFails(validateStock(cart, products))
     THEN /\ resp' = [Response("checkout", u, 400, 0)
                         EXCEPT !.issues = validateStock(cart, products).issues]
          /\ UNCHANGED <<products, carts, orders>>
     ELSE IF ~RateIsNumber(ShippingMethodUsed(shipReq, cart))
     THEN /\ resp' = Response("checkout", u, 400, 0)   \* Order.create rejects
          /\ UNCHANGED <<products, carts, orders>>
     ELSE /\ Len(orders) < MaxOrders
          /\ orders' = Append(orders, NewOrder(u, cart, products, shipReq))
          /\ products' = DecrementStock(cart.items, 1, products)
          /\ carts' = [carts EXCEPT ![u] = CartAfterCheckout(cart)]
          /\ \E m \in MailOutcomes :                   \* try { sendEmail } catch
               resp' = [Response("checkout", u, 201, Len(orders) + 1)
                          EXCEPT !.mail = m, !.req.shipping = shipReq]
  /\ UNCHANGED <<pc, loc, wishlists, accounts, extraCarts>>

(***************************************************************************)
(* Cart routes, cart.routes.js.                                            *)
(***************************************************************************)

\* POST /api/cart/items
AddItem(u, productId, quantity, variant) ==
  /\ Serve
  /\ IF quantity < 1                                   \* isInt({ min: 1 })
     THEN /\ resp' = Response("addItem", u, 400, 0)
          /\ UNCHANGED carts
     ELSE IF productId \notin DOMAIN products          \* !product
     THEN /\ resp' = Response("addItem", u, 404, 0)
          /\ UNCHANGED carts
     ELSE IF products[productId].status # "active"
     THEN /\ resp' = Response("addItem", u, 400, 0)
          /\ UNCHANGED carts
     ELSE LET cart == IF carts[u].exists THEN carts[u] ELSE NewCart
              new  == addItem(cart, productId, quantity, variant)
          IN  /\ Len(new.items) <= MaxItems
              /\ \A i \in 1..Len(new.items) : new.items[i].quantity <= MaxQty
              /\ carts' = [carts EXCEPT ![u] = new]
              /\ resp' = Response("addItem", u, 201, 0)
  /\ UNCHANGED <<products, orders, pc, loc, wishlists, accounts, extraCarts>>

\* body('quantity').isInt({ min: 0 }) of PUT /api/cart/items/:productId
QuantityValidMinOne(quantity) == quantity >= 1
QuantityValid(quantity) == quantity >= 0

\* PUT /api/cart/items/:productId
UpdateQuantity(u, productId, quantity, variant) ==
  LET req == [product |-> productId, quantity |-> quantity, variant |-> variant,
              matched |-> FindItem(carts[u].items, productId, variant) # 0,
              token |-> NoToken, shipping |-> NoShipping, password |-> ""]
  IN
  /\ Serve
  /\ IF ~QuantityValid(quantity)
     THEN /\ resp' = [Response("updateQuantity", u, 400, 0) EXCEPT !.req = req]
          /\ UNCHANGED carts
     ELSE IF ~carts[u].exists
     THEN /\ resp' = [Response("updateQuantity", u, 404, 0) EXCEPT !.req = req]
          /\ UNCHANGED carts
     ELSE /\ carts' = [carts EXCEPT ![u] = updateQuantity(@, productId, quantity, variant)]
          /\ resp' = [Response("updateQuantity", u, 200, 0) EXCEPT !.req = req]
  /\ UNCHANGED <<products, orders, pc, loc, wishlists, accounts, extraCarts>>

\* DELETE /api/cart/items/:productId
RemoveItem(u, productId, variant) ==
  /\ Serve
  /\ IF ~carts[u].exists
     THEN /\ resp' = Response("removeItem", u, 404, 0)
          /\ UNCHANGED carts
     ELSE /\ carts' = [carts EXCEPT ![u] = removeItem(@, productId, variant)]
          /\ resp' = Response("removeItem", u, 200, 0)
  /\ UNCHANGED <<products, orders, pc, loc, wishlists, accounts, extraCarts>>

\* DELETE /api/cart
ClearCart(u) ==
  /\ Serve
  /\ IF ~carts[u].exists
     THEN /\ resp' = Response("clearCart", u, 404, 0)
          /\ UNCHANGED carts
     ELSE /\ carts' = [carts EXCEPT ![u] = clear(@)]
          /\ resp' = Response("clearCart", u, 200, 0)
  /\ UNCHANGED <<products, orders, pc, loc, wishlists, accounts, extraCarts>>

\* POST /api/cart/coupon (discount >= 0, type percentage or fixed)
ApplyCoupon(u, coupon) ==
  /\ Serve
  /\ IF ~carts[u].exists
     THEN /\ resp' = Response("applyCoupon", u, 404, 0)
          /\ UNCHANGED carts
     ELSE /\ carts' = [carts EXCEPT ![u] = applyCoupon(@, coupon)]
          /\ resp' = Response("applyCoupon", u, 200, 0)
  /\ UNCHANGED <<products, orders, pc, loc, wishlists, accounts, extraCarts>>

\* DELETE /api/cart/coupon
RemoveCoupon(u) ==
  /\ Serve
  /\ IF ~carts[u].exists
     THEN /\ resp' = Response("removeCoupon", u, 404, 0)
          /\ UNCHANGED carts
     ELSE /\ carts' = [carts EXCEPT ![u] = removeCoupon(@)]
          /\ resp' = Response("removeCoupon", u, 200, 0)
  /\ UNCHANGED <<products, orders, pc, loc, wishlists, accounts, extraCarts>>

\* for (const guestItem of guestCart.items) await userCart.addItem(...)
MergeItemsAppended(cart, guestItems, i) == [cart EXCEPT !.items = @ \o guestItems]
RECURSIVE MergeItems(_, _, _)
MergeItems(cart, guestItems, i) ==
  IF i > Len(guestItems) THEN cart
  ELSE MergeItems(addItem(cart, guestItems[i].product, guestItems[i].quantity,
                          guestItems[i].variant),
                  guestItems, i + 1)

\* guest carts a client sends to POST /api/cart/merge
GuestCarts ==
  { [items |-> its, coupon |-> c, shippingMethod |-> NoShipping] :
      its \in {<<>>} \cup { <<[product |-> p, quantity |-> 1, variant |-> NoVariant]>> :
                              p \in ProductIds },
      c \in {NoCoupon, [code |-> "FIVE", discount |-> 50000, type |-> "fixed"]} }

\* POST /api/cart/merge
Merge(u, guestCart) ==
  /\ Serve
  /\ IF Len(guestCart.items) = 0
     THEN /\ resp' = Response("merge", u, 400, 0)
          /\ UNCHANGED carts
     ELSE LET cart   == IF carts[u].exists THEN carts[u] ELSE NewCart
              merged == MergeItems(cart, guestCart.items, 1)
              couped == IF guestCart.coupon # NoCoupon
                        THEN applyCoupon(merged, guestCart.coupon)
                        ELSE merged
              new    == IF guestCart.shippingMethod # NoShipping
                        THEN [couped EXCEPT !.shippingMethod = guestCart.shippingMethod]
                        ELSE couped
          IN  /\ Len(new.items) <= MaxItems
              /\ \A i \in 1..Len(new.items) : new.items[i].quantity <= MaxQty
              /\ carts' = [carts EXCEPT ![u] = new]
              /\ resp' = Response("merge", u, 200, 0)
  /\ UNCHANGED <<products, orders, pc, loc, wishlists, accounts, extraCarts>>

(***************************************************************************)
(* Order status routes, order.routes.js, and the admin bulk route.         *)
(***************************************************************************)

\* if (!order.canBeCancelled()) return 400
CancelRejectedNever(order) == FALSE
CancelRejectedOnlyCancelled(order) == order.status = "cancelled"
CancelRejectedOnlyShipped(order) == order.status = "shipped"
CancelRejected(order) == ~canBeCancelled(order)

\* one round of the restore loop: findById, updateStock('increase'), save
RestoreOneAlways(prods, item) ==
  [prods EXCEPT ![item.product] = updateStock(@, item.quantity, "increase")]
RestoreOne(prods, item) ==
  LET p == prods[item.product] IN
  IF p.trackQuantity
  THEN [prods EXCEPT ![item.product] = updateStock(p, item.quantity, "increase")]
  ELSE prods

\* for (const item of order.items) { ... }
RECURSIVE RestoreStock(_, _, _)
RestoreStock(items, i, prods) ==
  IF i > Len(items) THEN prods
  ELSE RestoreStock(items, i + 1, RestoreOne(prods, items[i]))

\* PUT /api/orders/:id/cancel
Cancel(u, o) ==
  /\ Serve
  /\ IF o \notin 1..Len(orders)
     THEN /\ resp' = Response("cancel", u, 404, o)
          /\ UNCHANGED <<products, orders>>
     ELSE IF orders[o].user # u /\ Role(u) # "admin"
     THEN /\ resp' = Response("cancel", u, 403, o)
          /\ UNCHANGED <<products, orders>>
     ELSE IF CancelRejected(orders[o])
     THEN /\ resp' = Response("cancel", u, 400, o)
          /\ UNCHANGED <<products, orders>>
     ELSE /\ orders' = [orders EXCEPT ![o] = updateStatus(@, "cancelled")]
          /\ products' = RestoreStock(orders[o].items, 1, products)
          /\ resp' = Response("cancel", u, 200, o)
  /\ UNCHANGED <<carts, pc, loc, wishlists, accounts, extraCarts>>

\* status values a client sends to the status routes
StatusInputs == OrderStatuses \cup {"bogus"}

\* PUT /api/orders/:id/status
UpdateStatus(u, o, status, trackingNumber) ==
  /\ Serve
  /\ IF Role(u) # "admin"                              \* authorize('admin')
     THEN /\ resp' = Response("status", u, 403, o)
          /\ UNCHANGED orders
     ELSE IF status \notin OrderStatuses               \* body('status').isIn
     THEN /\ resp' = Response("status", u, 400, o)
          /\ UNCHANGED orders
     ELSE IF o \notin 1..Len(orders)
     THEN /\ resp' = Response("status", u, 404, o)
          /\ UNCHANGED orders
     ELSE /\ orders' = [orders EXCEPT ![o] =
                          [updateStatus(@, status) EXCEPT !.trackingNumber =
                             IF trackingNumber # NoTracking THEN trackingNumber ELSE @]]
          /\ IF status = "shipped" /\ trackingNumber # NoTracking
             THEN \E m \in MailOutcomes :              \* try { sendEmail } catch
                    resp' = [Response("status", u, 200, o) EXCEPT !.mail = m]
             ELSE resp' = Response("status", u, 200, o)
  /\ UNCHANGED <<products, carts, pc, loc, wishlists, accounts, extraCarts>>

\* POST /api/admin/bulk, operation updateStatus, target orders:
\* Order.updateMany({ _id: { $in: data.ids } }, { status: data.status })
BulkUpdateOrders(u, ids, status) ==
  /\ Serve
  /\ IF Role(u) # "admin"                              \* router.use(authorize)
     THEN /\ resp' = Response("bulkOrders", u, 403, 0)
          /\ UNCHANGED orders
     ELSE /\ orders' = [o \in 1..Len(orders) |->
                          IF o \in ids THEN [orders[o] EXCEPT !.status = status]
                          ELSE orders[o]]
          /\ resp' = Response("bulkOrders", u, 200, 0)
  /\ UNCHANGED <<products, carts, pc, loc, wishlists, accounts, extraCarts>>

\* POST /api/admin/bulk, operation updateStatus, target products:
\* Product.updateMany({ _id: { $in: data.ids } }, { status: data.status })
BulkUpdateProducts(u, ids, status) ==
  /\ Serve
  /\ IF Role(u) # "admin"
     THEN /\ resp' = Response("bulkProducts", u, 403, 0)
          /\ UNCHANGED products
     ELSE /\ products' = [p \in DOMAIN products |->
                            IF p \in ids THEN [products[p] EXCEPT !.status = status]
                            ELSE products[p]]
          /\ resp' = Response("bulkProducts", u, 200, 0)
  /\ UNCHANGED <<carts, orders, pc, loc, wishlists, accounts, extraCarts>>

\* GET /api/cart: creates the Cart document when the user has none
GetCart(u) ==
  /\ Serve
  /\ carts' = [carts EXCEPT ![u] = IF @.exists THEN @ ELSE NewCart]
  /\ resp' = Response("getCart", u, 200, 0)
  /\ UNCHANGED <<products, orders, pc, loc, wishlists, accounts, extraCarts>>

\* body('method').isIn([...]) of PUT /api/cart/shipping
ShippingMethods == {"standard", "express", "overnight"}

\* PUT /api/cart/shipping
SetShipping(u, method) ==
  /\ Serve
  /\ IF method \notin ShippingMethods
     THEN /\ resp' = Response("setShipping", u, 400, 0)
          /\ UNCHANGED carts
     ELSE IF ~carts[u].exists
     THEN /\ resp' = Response("setShipping", u, 404, 0)
          /\ UNCHANGED carts
     ELSE /\ carts' = [carts EXCEPT ![u].shippingMethod = method]
          /\ resp' = Response("setShipping", u, 200, 0)
  /\ UNCHANGED <<products, orders, pc, loc, wishlists, accounts, extraCarts>>

\* the products after GET /api/cart/validate: the handler calls
\* cart.validateStock() and answers; it saves no document
StockAfterValidateReserved(prods, cart) ==
  [p \in DOMAIN prods |->
     IF prods[p].trackQuantity /\ \E i \in 1..Len(cart.items) : cart.items[i].product = p
     THEN updateStock(prods[p], 1, "decrease")
     ELSE prods[p]]
StockAfterValidate(prods, cart) == prods

\* GET /api/cart/validate
ValidateCart(u) ==
  /\ Serve
  /\ IF ~carts[u].exists
     THEN /\ resp' = Response("validate", u, 404, 0)
          /\ UNCHANGED products
     ELSE /\ resp' = [Response("validate", u, 200, 0)
                       EXCEPT !.issues = validateStock(carts[u], products).issues]
          /\ products' = StockAfterValidate(products, carts[u])
  /\ UNCHANGED <<carts, orders, pc, loc, wishlists, accounts, extraCarts>>

(***************************************************************************)
(* Wishlist model methods (models/Wishlist.js) and the wishlist routes of  *)
(* cart.routes.js.                                                         *)
(***************************************************************************)

\* Wishlist schema defaults: no items, not public, no share token
NewWishlist ==
  [exists |-> TRUE, items |-> {}, isPublic |-> FALSE, shareToken |-> NoToken]

\* Wishlist.hasItem
hasItem(w, productId) == \E it \in w.items : it.product = productId

\* Wishlist.addItem(productId, notes, priority): one item per product; the
\* route passes no variant
wishlistAddItem(w, productId) ==
  IF hasItem(w, productId) THEN w
  ELSE [w EXCEPT !.items = @ \cup {[product |-> productId, variant |-> NoVariant]}]

\* Wishlist.removeItem / Wishlist.clear
wishlistRemoveItem(w, productId) ==
  [w EXCEPT !.items = {it \in @ : it.product # productId}]
wishlistClear(w) == [w EXCEPT !.items = {}]

\* Wishlist.moveToCart(productId): removes the item and returns its data;
\* `found` is FALSE (a null result) when the product is not in the wishlist
moveToCart(w, productId) ==
  IF hasItem(w, productId)
  THEN [found |-> TRUE,
        item |-> CHOOSE it \in w.items : it.product = productId,
        wishlist |-> wishlistRemoveItem(w, productId)]
  ELSE [found |-> FALSE,
        item |-> [product |-> productId, variant |-> NoVariant],
        wishlist |-> w]

\* Wishlist.generateShareToken / revokeShareToken: store / drop the token
generateShareToken(w, token) == [w EXCEPT !.shareToken = token]
revokeShareToken(w) == [w EXCEPT !.shareToken = NoToken]

\* Wishlist.findByShareToken(token): the owners of the public wishlists that
\* carry the token
findByShareToken(token) ==
  {u \in Users : /\ wishlists[u].exists
                 /\ wishlists[u].isPublic
                 /\ wishlists[u].shareToken = token}

\* GET /api/wishlist: creates the Wishlist document when the user has none
GetWishlist(u) ==
  /\ Serve
  /\ wishlists' = [wishlists EXCEPT ![u] = IF @.exists THEN @ ELSE NewWishlist]
  /\ resp' = Response("getWishlist", u, 200, 0)
  /\ UNCHANGED <<products, carts, orders, pc, loc, accounts, extraCarts>>

\* POST /api/wishlist/items
WishlistAdd(u, productId) ==
  /\ Serve
  /\ IF productId \notin DOMAIN products               \* !product
     THEN /\ resp' = Response("wishlistAdd", u, 404, 0)
          /\ UNCHANGED wishlists
     ELSE /\ wishlists' = [wishlists EXCEPT ![u] =
             wishlistAddItem(IF @.exists THEN @ ELSE NewWishlist, productId)]
          /\ resp' = Response("wishlistAdd", u, 201, 0)
  /\ UNCHANGED <<products, carts, orders, pc, loc, accounts, extraCarts>>

\* DELETE /api/wishlist/items/:productId
WishlistRemove(u, productId) ==
  /\ Serve
  /\ IF ~wishlists[u].exists
     THEN /\ resp' = Response("wishlistRemove", u, 404, 0)
          /\ UNCHANGED wishlists
     ELSE /\ wishlists' = [wishlists EXCEPT ![u] = wishlistRemoveItem(@, productId)]
          /\ resp' = Response("wishlistRemove", u, 200, 0)
  /\ UNCHANGED <<products, carts, orders, pc, loc, accounts, extraCarts>>

\* DELETE /api/wishlist
WishlistClear(u) ==
  /\ Serve
  /\ IF ~wishlists[u].exists
     THEN /\ resp' = Response("wishlistClear", u, 404, 0)
          /\ UNCHANGED wishlists
     ELSE /\ wishlists' = [wishlists EXCEPT ![u] = wishlistClear(@)]
          /\ resp' = Response("wishlistClear", u, 200, 0)
  /\ UNCHANGED <<products, carts, orders, pc, loc, accounts, extraCarts>>

\* const { quantity = 1 } = req.body
MoveQuantity(hasQuantity, quantity) == IF hasQuantity THEN quantity ELSE 1

\* variant || item.variant
MovedVariantOriginalOnly(variant, item) == item.variant
MovedVariant(variant, item) == IF variant # NoVariant THEN variant ELSE item.variant

\* POST /api/wishlist/move-to-cart/:productId; hasQuantity: the body carries a
\* quantity.  The response records the quantity and variant asked for and
\* whether the wishlist held the product
MoveToCart(u, productId, hasQuantity, quantity, variant) ==
  LET q     == MoveQuantity(hasQuantity, quantity)
      moved == moveToCart(wishlists[u], productId)
      req   == [product |-> productId, quantity |-> q, variant |-> variant,
                matched |-> wishlists[u].exists /\ moved.found, token |-> NoToken,
                shipping |-> NoShipping, password |-> ""]
  IN
  /\ Serve
  /\ IF hasQuantity /\ quantity < 1                    \* optional().isInt({ min: 1 })
     THEN /\ resp' = [Response("moveToCart", u, 400, 0) EXCEPT !.req = req]
          /\ UNCHANGED <<carts, wishlists>>
     ELSE IF ~wishlists[u].exists
     THEN /\ resp' = [Response("moveToCart", u, 404, 0) EXCEPT !.req = req]
          /\ UNCHANGED <<carts, wishlists>>
     ELSE IF ~moved.found                              \* !item
     THEN /\ resp' = [Response("moveToCart", u, 404, 0) EXCEPT !.req = req]
          /\ UNCHANGED <<carts, wishlists>>
     ELSE LET cart == IF carts[u].exists THEN carts[u] ELSE NewCart
              new  == addItem(cart, productId, q, MovedVariant(variant, moved.item))
          IN  /\ Len(new.items) <= MaxItems
              /\ \A i \in 1..Len(new.items) : new.items[i].quantity <= MaxQty
              /\ wishlists' = [wishlists EXCEPT ![u] = moved.wishlist]
              /\ carts' = [carts EXCEPT ![u] = new]
              /\ resp' = [Response("moveToCart", u, 200, 0) EXCEPT !.req = req]
  /\ UNCHANGED <<products, orders, pc, loc, accounts, extraCarts>>

\* wishlist.isPublic = false of DELETE /api/wishlist/share
PublicAfterRevokeKept(w) == w.isPublic
PublicAfterRevoke(w) == FALSE

\* POST /api/wishlist/share; `token` is the token generateShareToken draws
ShareWishlist(u, token) ==
  /\ Serve
  /\ IF ~wishlists[u].exists
     THEN /\ resp' = Response("share", u, 404, 0)
          /\ UNCHANGED wishlists
     ELSE /\ wishlists' = [wishlists EXCEPT ![u] =
                             generateShareToken([@ EXCEPT !.isPublic = TRUE], token)]
          /\ resp' = [Response("share", u, 200, 0) EXCEPT !.req.token = token]
  /\ UNCHANGED <<products, carts, orders, pc, loc, accounts, extraCarts>>

\* DELETE /api/wishlist/share; the response records the token given up
RevokeShare(u) ==
  /\ Serve
  /\ IF ~wishlists[u].exists
     THEN /\ resp' = Response("revokeShare", u, 404, 0)
          /\ UNCHANGED wishlists
     ELSE /\ wishlists' = [wishlists EXCEPT ![u] =
                             revokeShareToken([@ EXCEPT !.isPublic = PublicAfterRevoke(wishlists[u])])]
          /\ resp' = [Response("revokeShare", u, 200, 0)
                        EXCEPT !.req.token = wishlists[u].shareToken]
  /\ UNCHANGED <<products, carts, orders, pc, loc, accounts, extraCarts>>

\* GET /api/wishlist/shared/:token, unauthenticated: the response names the
\* owner of the wishlist it returns
SharedWishlist(token) ==
  /\ Serve
  /\ IF findByShareToken(token) = {}
     THEN resp' = [Response("shared", "anon", 404, 0) EXCEPT !.req.token = token]
     ELSE \E owner \in findByShareToken(token) :
            resp' = [Response("shared", owner, 200, 0) EXCEPT !.req.token = token]
  /\ UNCHANGED <<products, carts, orders, pc, loc, wishlists, accounts, extraCarts>>

\* GET /api/orders/:id
GetOrder(u, o) ==
  /\ Serve
  /\ IF o \notin 1..Len(orders)
     THEN resp' = Response("getOrder", u, 404, o)
     ELSE IF orders[o].user # u /\ Role(u) # "admin"
     THEN resp' = Response("getOrder", u, 403, o)
     ELSE resp' = Response("getOrder", u, 200, o)
  /\ UNCHANGED <<products, carts, orders, pc, loc, wishlists, accounts, extraCarts>>

\* data.updates a client sends to the bulk operation updatePrices
PriceUpdates ==
  { <<[id |-> p, price |-> 500000]>> : p \in ProductIds }
    \cup { <<[id |-> "p1", price |-> 20000], [id |-> "p2", price |-> 500000]>> }

\* Product.bulkWrite(bulkOps): one updateOne { price } per update, in order
RECURSIVE ApplyPriceUpdates(_, _, _)
ApplyPriceUpdates(prods, updates, i) ==
  IF i > Len(updates) THEN prods
  ELSE ApplyPriceUpdates(
         IF updates[i].id \in DOMAIN prods
         THEN [prods EXCEPT ![updates[i].id].price = updates[i].price]
         ELSE prods,
         updates, i + 1)

\* the Order collection after Product.bulkWrite: order items hold the price
\* copied at checkout, not a reference to the product
OrdersAfterPriceUpdateLive(ords, prods) ==
  [o \in 1..Len(ords) |->
     [ords[o] EXCEPT !.items =
        [i \in 1..Len(ords[o].items) |->
           [ords[o].items[i] EXCEPT !.price = prods[ords[o].items[i].product].price]]]]
OrdersAfterPriceUpdate(ords, prods) == ords

\* POST /api/admin/bulk, operation updatePrices, target products
BulkUpdatePrices(u, updates) ==
  /\ Serve
  /\ IF Role(u) # "admin"
     THEN /\ resp' = Response("bulkPrices", u, 403, 0)
          /\ UNCHANGED <<products, orders>>
     ELSE /\ products' = ApplyPriceUpdates(products, updates, 1)
          /\ orders' = OrdersAfterPriceUpdate(orders, products')
          /\ resp' = Response("bulkPrices", u, 200, 0)
  /\ UNCHANGED <<carts, pc, loc, wishlists, accounts, extraCarts>>

(***************************************************************************)
(* Auth routes, order.routes.js (routes/auth.js).                          *)
(***************************************************************************)

\* POST /api/auth/register with a well-formed body; `token` is the
\* verification token drawn
Register(email, token) ==
  /\ Serve
  /\ IF accounts[email].exists                         \* existingUser
     THEN /\ resp' = Response("register", email, 400, 0)
          /\ UNCHANGED accounts
     ELSE /\ accounts' = [accounts EXCEPT ![email] =
                            [NoAccount EXCEPT !.exists = TRUE, !.verificationToken = token]]
          /\ \E m \in MailOutcomes :                   \* try { sendEmail } catch
               resp' = [Response("register", email, 201, 0) EXCEPT !.mail = m]
  /\ UNCHANGED <<products, carts, orders, pc, loc, wishlists, extraCarts>>

\* POST /api/auth/forgot-password; `token` is the reset token drawn.  The 200
\* is sent inside the try block; the catch block takes the token back and
\* answers 500
ForgotPassword(email, token) ==
  /\ Serve
  /\ IF ~accounts[email].exists                        \* !user
     THEN /\ resp' = Response("forgotPassword", email, 404, 0)
          /\ UNCHANGED accounts
     ELSE \E m \in MailOutcomes :
            IF m = "sent"
            THEN /\ accounts' = [accounts EXCEPT ![email].resetPasswordToken = token]
                 /\ resp' = [Response("forgotPassword", email, 200, 0) EXCEPT !.mail = m]
            ELSE /\ accounts' = [accounts EXCEPT ![email].resetPasswordToken = NoToken]
                 /\ resp' = [Response("forgotPassword", email, 500, 0) EXCEPT !.mail = m]
  /\ UNCHANGED <<products, carts, orders, pc, loc, wishlists, extraCarts>>

\* the password the accounts were registered with, and what a client sends
\* as req.body.password: it, another one, or nothing
RegisteredPassword == "pw"
Passwords == {RegisteredPassword, "bad", ""}

\* the user id a JWT is signed for: generateToken(user._id) of the register
\* and login routes
JwtFor == [e \in Emails |-> IF e = "e1" THEN "jwt1" ELSE "jwt2"]

\* the user of the cart and order routes an account belongs to
AccountUser(email) == IF email = "e1" THEN "u1" ELSE "u2"

\* user.comparePassword(password)
comparePassword(account, password) == password = RegisteredPassword

\* user.incLoginAttempts(): one more failed attempt; whether the attempt locks
\* the account is decided in models/User.js, so both outcomes are taken
incLoginAttempts(account, locks) ==
  [account EXCEPT !.loginAttempts = @ + 1, !.isLocked = locks]

\* user.resetLoginAttempts()
resetLoginAttempts(account) == [account EXCEPT !.loginAttempts = 0]

\* if (user.isLocked) return res.status(423) of POST /api/auth/login
LoginRefused(account) == account.isLocked

\* POST /api/auth/login
Login(email, password) ==
  /\ Serve
  /\ IF password = ""                                  \* body('password').notEmpty()
     THEN /\ resp' = [Response("login", email, 400, 0) EXCEPT !.req.password = password]
          /\ UNCHANGED accounts
     ELSE IF ~accounts[email].exists                   \* !user
     THEN /\ resp' = [Response("login", email, 401, 0) EXCEPT !.req.password = password]
          /\ UNCHANGED accounts
     ELSE IF LoginRefused(accounts[email])
     THEN /\ resp' = [Response("login", email, 423, 0) EXCEPT !.req.password = password]
          /\ UNCHANGED accounts
     ELSE IF ~comparePassword(accounts[email], password)
     THEN /\ \E locks \in BOOLEAN :
               accounts' = [accounts EXCEPT ![email] = incLoginAttempts(@, locks)]
          /\ resp' = [Response("login", email, 401, 0) EXCEPT !.req.password = password]
     ELSE /\ accounts' = [accounts EXCEPT ![email] = resetLoginAttempts(@)]
          /\ resp' = [Response("login", email, 200, 0)
                        EXCEPT !.req.password = password, !.req.token = JwtFor[email]]
  /\ UNCHANGED <<products, carts, orders, pc, loc, wishlists, extraCarts>>

\* protect: the 401 returns for a verified token whose user is gone or locked
ProtectRejectsMissingOnly(account) == ~account.exists
ProtectRejects(account) == ~account.exists \/ account.isLocked

\* GET /api/cart behind protect, sent with the JWT of the account `email`
\* (hasToken) or with no token at all
AuthGetCart(email, hasToken) ==
  /\ Serve
  /\ IF ~hasToken \/ ProtectRejects(accounts[email])
     THEN /\ resp' = Response("authGetCart", email, 401, 0)
          /\ UNCHANGED carts
     ELSE /\ carts' = [carts EXCEPT ![AccountUser(email)] = IF @.exists THEN @ ELSE NewCart]
          /\ resp' = Response("authGetCart", email, 200, 0)
  /\ UNCHANGED <<products, orders, accounts, pc, loc, wishlists, extraCarts>>

(***************************************************************************)
(* Spec: every request runs to completion before the next one starts.      *)
(***************************************************************************)

\* the product catalogue at start: p1 (100.00) tracks quantity without
\* backorders, p2 (9.99) does not track quantity
InitProducts ==
  [p \in ProductIds |->
     IF p = "p1"
     THEN [status |-> "active", price |-> 1000000, quantity |-> InitStock,
           trackQuantity |-> TRUE, allowBackorders |-> FALSE]
     ELSE [status |-> "active", price |-> 99900, quantity |-> InitStock,
           trackQuantity |-> FALSE, allowBackorders |-> FALSE]]

\* the locals of a request that has not started
IdleLoc ==
  [cart |-> NoCart, pop |-> InitProducts, i |-> 0, issues |-> {},
   prod |-> InitProducts["p1"], order |-> 0,
   kind |-> "none", product |-> "", doc |-> 0, user |-> "u1"]

Init ==
  /\ products = InitProducts
  /\ carts = [u \in Users |-> NoCart]
  /\ orders = <<>>
  /\ resp = Response("none", "u1", 0, 0)
  /\ nreq = 0
  /\ pc = [r \in Procs |-> "idle"]
  /\ loc = [r \in Procs |-> IdleLoc]
  /\ wishlists = [u \in Users |-> NoWishlist]
  /\ accounts = [e \in Emails |-> NoAccount]
  /\ extraCarts = [u \in Users |-> 0]

OrderIds == 1..MaxOrders

Next ==
  \/ \E u \in Shoppers, p \in ProductIds \cup {"px"}, q \in 0..MaxQty, v \in Variants :
       AddItem(u, p, q, v)
  \/ \E u \in Shoppers, p \in ProductIds, q \in -1..MaxQty, v \in Variants :
       UpdateQuantity(u, p, q, v)
  \/ \E u \in Shoppers, p \in ProductIds, v \in Variants : RemoveItem(u, p, v)
  \/ \E u \in Shoppers : ClearCart(u)
  \/ \E u \in Shoppers, c \in Coupons : ApplyCoupon(u, c)
  \/ \E u \in Shoppers : RemoveCoupon(u)
  \/ \E u \in Shoppers, g \in GuestCarts : Merge(u, g)
  \/ \E u \in Shoppers, s \in ShippingInputs : Checkout(u, s)
  \/ \E u \in Users, o \in OrderIds : Cancel(u, o)
  \/ \E u \in Users, o \in OrderIds, s \in StatusInputs, t \in {NoTracking, "TRK1"} :
       UpdateStatus(u, o, s, t)
  \/ \E u \in Users, ids \in SUBSET OrderIds, s \in StatusInputs :
       BulkUpdateOrders(u, ids, s)
  \/ \E u \in Users, ids \in SUBSET ProductIds, s \in ProductStatuses :
       BulkUpdateProducts(u, ids, s)

Spec == Init /\ [][Next]_vars

(***************************************************************************)
(* SpecStep: two checkouts by different users, interleaved; every database *)
(* read and every database write of POST /api/orders is a step of its own. *)
(***************************************************************************)
\* req.user.id of the request
ReqUser(r) == loc[r].user

\* the locals of two requests that have not started, one of u1 and one of u2
TwoUsersLoc == [r \in Procs |-> [IdleLoc EXCEPT !.user = IF r = "r1" THEN "u1" ELSE "u2"]]

\* the product the request's inventory loop is at
CurItem(r) == loc[r].cart.items[loc[r].i]

\* Cart.findOne({ user }).populate('items.product')
CoLoad(r) ==
  /\ pc[r] = "idle"
  /\ loc' = [loc EXCEPT ![r] = [@ EXCEPT !.cart = carts[ReqUser(r)],
                                         !.pop = products, !.i = 1, !.issues = {}]]
  /\ IF CartIsEmpty(carts[ReqUser(r)])
     THEN /\ pc' = [pc EXCEPT ![r] = "done"]
          /\ resp' = Response("checkout", ReqUser(r), 400, 0)
     ELSE /\ pc' = [pc EXCEPT ![r] = "validate"]
          /\ UNCHANGED resp
  /\ UNCHANGED <<products, carts, orders, nreq, wishlists, accounts, extraCarts>>

\* cart.validateStock(): one product read per line, then the 400 or go on
CoValidate(r) ==
  /\ pc[r] = "validate"
  /\ LET i      == loc[r].i
         issues == IF ItemHasIssue(CurItem(r), products)
                   THEN loc[r].issues \cup {i} ELSE loc[r].issues
         last   == i = Len(loc[r].cart.items)
         v      == [isValid |-> issues = {}, issues |-> issues]
     IN  /\ loc' = [loc EXCEPT ![r] = [@ EXCEPT !.issues = issues,
                                                !.i = IF last THEN 1 ELSE i + 1]]
         /\ IF ~last
            THEN UNCHANGED <<pc, resp>>
            ELSE IF StockCheckFails(v)
            THEN /\ pc' = [pc EXCEPT ![r] = "done"]
                 /\ resp' = [Response("checkout", ReqUser(r), 400, 0)
                               EXCEPT !.issues = issues]
            ELSE /\ pc' = [pc EXCEPT ![r] = "create"]
                 /\ UNCHANGED resp
  /\ UNCHANGED <<products, carts, orders, nreq, wishlists, accounts, extraCarts>>

\* Order.create({...}) from the cart as it was loaded
CoCreate(r) ==
  /\ pc[r] = "create"
  /\ orders' = Append(orders, NewOrder(ReqUser(r), loc[r].cart, loc[r].pop, NoShipping))
  /\ loc' = [loc EXCEPT ![r] = [@ EXCEPT !.order = Len(orders) + 1, !.i = 1]]
  /\ pc' = [pc EXCEPT ![r] = "find"]
  /\ UNCHANGED <<products, carts, resp, nreq, wishlists, accounts, extraCarts>>

\* the position after the inventory loop's round i
AfterRoundClearAtOnce(r) == "clear"
AfterRound(r) == IF loc[r].i = Len(loc[r].cart.items) THEN "clear" ELSE "find"

\* Product.findById(item.product._id)
CoFind(r) ==
  /\ pc[r] = "find"
  /\ LET p == products[CurItem(r).product] IN
     IF p.trackQuantity
     THEN /\ loc' = [loc EXCEPT ![r] = [@ EXCEPT !.prod = p]]
          /\ pc' = [pc EXCEPT ![r] = "save"]
     ELSE /\ loc' = [loc EXCEPT ![r] = [@ EXCEPT !.i = @ + 1]]
          /\ pc' = [pc EXCEPT ![r] = AfterRound(r)]
  /\ UNCHANGED <<products, carts, orders, resp, nreq, wishlists, accounts, extraCarts>>

\* product.updateStock(item.quantity, 'decrease'); product.save(): the
\* quantity computed from the document read by CoFind is written back
CoSave(r) ==
  /\ pc[r] = "save"
  /\ products' = [products EXCEPT ![CurItem(r).product].quantity =
                    updateStock(loc[r].prod, CurItem(r).quantity, "decrease").quantity]
  /\ loc' = [loc EXCEPT ![r] = [@ EXCEPT !.i = @ + 1]]
  /\ pc' = [pc EXCEPT ![r] = AfterRound(r)]
  /\ UNCHANGED <<carts, orders, resp, nreq, wishlists, accounts, extraCarts>>

\* cart.clear(), the confirmation email, then the 201
CoClear(r) ==
  /\ pc[r] = "clear"
  /\ carts' = [carts EXCEPT ![ReqUser(r)] = CartAfterCheckout(@)]
  /\ pc' = [pc EXCEPT ![r] = "done"]
  /\ \E m \in MailOutcomes :
       resp' = [Response("checkout", ReqUser(r), 201, loc[r].order) EXCEPT !.mail = m]
  /\ UNCHANGED <<products, orders, loc, nreq, wishlists, accounts, extraCarts>>

\* carts the two users have filled before they check out
StepCarts ==
  { [NewCart EXCEPT !.items = <<[product |-> p, quantity |-> q, variant |-> NoVariant]>>] :
      p \in ProductIds, q \in 1..MaxQty }

InitStep ==
  /\ products = InitProducts
  /\ \E c1 \in StepCarts \cup {NewCart}, c2 \in StepCarts :
       carts = [u \in Users |-> IF u = "u1" THEN c1 ELSE IF u = "u2" THEN c2 ELSE NoCart]
  /\ orders = <<>>
  /\ resp = Response("none", "u1", 0, 0)
  /\ nreq = 0
  /\ pc = [r \in Procs |-> "idle"]
  /\ loc = TwoUsersLoc
  /\ wishlists = [u \in Users |-> NoWishlist]
  /\ accounts = [e \in Emails |-> NoAccount]
  /\ extraCarts = [u \in Users |-> 0]

NextStep ==
  \/ \E r \in Procs : CoLoad(r)
  \/ \E r \in Procs : CoValidate(r)
  \/ \E r \in Procs : CoCreate(r)
  \/ \E r \in Procs : CoFind(r)
  \/ \E r \in Procs : CoSave(r)
  \/ \E r \in Procs : CoClear(r)

SpecStep == InitStep /\ [][NextStep]_vars

(***************************************************************************)
(* SpecCart: the cart and wishlist routes with everything a client can     *)
(* send, the admin's product status changes, checkout and cancel.          *)
(***************************************************************************)

\* guest carts of any content: POST /api/cart/merge validates nothing but
\* the presence of items
GuestCartsAny ==
  { [items |-> its, coupon |-> NoCoupon, shippingMethod |-> NoShipping] :
      its \in {<<>>, <<[product |-> "p1", quantity |-> 1, variant |-> NoVariant],
                        [product |-> "p1", quantity |-> 1, variant |-> NoVariant]>>}
              \cup { <<[product |-> p, quantity |-> q, variant |-> NoVariant]>> :
                       p \in {"p1", "px"}, q \in -1..1 } }

NextCart ==
  \/ \E u \in Shoppers, p \in ProductIds \cup {"px"}, q \in 0..MaxQty, v \in Variants :
       AddItem(u, p, q, v)
  \/ \E u \in Shoppers, p \in ProductIds, q \in -1..MaxQty, v \in Variants :
       UpdateQuantity(u, p, q, v)
  \/ \E u \in Shoppers, p \in ProductIds, v \in Variants : RemoveItem(u, p, v)
  \/ \E u \in Shoppers : ClearCart(u)
  \/ \E u \in Shoppers, c \in Coupons : ApplyCoupon(u, c)
  \/ \E u \in Shoppers : RemoveCoupon(u)
  \/ \E u \in Shoppers, m \in {"express", "bogus"} : SetShipping(u, m)
  \/ \E u \in Shoppers : ValidateCart(u)
  \/ \E u \in Shoppers : GetCart(u)
  \/ \E u \in Shoppers, g \in GuestCartsAny : Merge(u, g)
  \/ \E u \in Shoppers, p \in ProductIds \cup {"px"} : WishlistAdd(u, p)
  \/ \E u \in Shoppers, p \in ProductIds, h \in BOOLEAN, q \in 0..MaxQty, v \in Variants :
       MoveToCart(u, p, h, q, v)
  \/ \E ids \in SUBSET ProductIds, s \in ProductStatuses :
       BulkUpdateProducts("admin", ids, s)
  \/ \E u \in Shoppers, s \in ShippingInputs : Checkout(u, s)
  \/ \E u \in Shoppers, o \in OrderIds : Cancel(u, o)

SpecCart == Init /\ [][NextCart]_vars

(***************************************************************************)
(* SpecOrders: orders after their creation: reads, status changes, cancel  *)
(* and the admin's price changes, by the owner, another user and an admin. *)
(***************************************************************************)
NextOrders ==
  \/ \E u \in Shoppers, p \in ProductIds, q \in 1..MaxQty : AddItem(u, p, q, NoVariant)
  \/ \E u \in Shoppers, s \in ShippingInputs : Checkout(u, s)
  \/ \E u \in Users, o \in OrderIds : GetOrder(u, o)
  \/ \E u \in Users, o \in OrderIds : Cancel(u, o)
  \/ \E u \in Users, o \in OrderIds, s \in {"confirmed", "shipped", "bogus"},
        t \in {NoTracking, "TRK1"} : UpdateStatus(u, o, s, t)
  \/ \E u \in Users, ids \in SUBSET OrderIds, s \in {"delivered"} :
       BulkUpdateOrders(u, ids, s)
  \/ \E u \in Users, updates \in PriceUpdates : BulkUpdatePrices(u, updates)

SpecOrders == Init /\ [][NextOrders]_vars

(***************************************************************************)
(* SpecMail: the four requests that send an email.                         *)
(***************************************************************************)
NextMail ==
  \/ \E u \in Shoppers, p \in ProductIds, q \in 1..MaxQty : AddItem(u, p, q, NoVariant)
  \/ \E u \in Shoppers, s \in ShippingInputs : Checkout(u, s)
  \/ \E o \in OrderIds, s \in {"confirmed", "shipped"}, t \in {NoTracking, "TRK1"} :
       UpdateStatus("admin", o, s, t)
  \/ \E e \in Emails, t \in Tokens : Register(e, t)
  \/ \E e \in Emails, t \in Tokens : ForgotPassword(e, t)

SpecMail == Init /\ [][NextMail]_vars

(***************************************************************************)
(* SpecLazy: two requests of one user that create the user's cart when     *)
(* there is none (GET /api/cart, POST /api/cart/items, POST                *)
(* /api/cart/merge, POST /api/wishlist/move-to-cart/:productId),           *)
(* interleaved; every await of a handler is a step of its own.             *)
(***************************************************************************)
LazyUser  == "u1"
LazyKinds == {"getCart", "addItem", "merge", "moveToCart"}

\* Cart.create({ user }): inserts a document.  When the user has one by now
\* it is a further document of the same user
CreateInserts(u) ==
  extraCarts' = [extraCarts EXCEPT ![u] = IF carts[u].exists THEN @ + 1 ELSE @]

\* what a handler does before Cart.findOne: add item looks the product up,
\* move-to-cart takes the item off the wishlist, the others nothing
LzBegin(r, kind, productId) ==
  /\ pc[r] = "idle"
  /\ loc' = [loc EXCEPT ![r] = [@ EXCEPT !.kind = kind, !.product = productId]]
  /\ IF kind = "addItem" /\ products[productId].status # "active"
     THEN /\ pc' = [pc EXCEPT ![r] = "done"]
          /\ resp' = Response(kind, LazyUser, 400, 0)
          /\ UNCHANGED wishlists
     ELSE IF kind = "moveToCart" /\ ~wishlists[LazyUser].exists
     THEN /\ pc' = [pc EXCEPT ![r] = "done"]
          /\ resp' = Response(kind, LazyUser, 404, 0)
          /\ UNCHANGED wishlists
     ELSE IF kind = "moveToCart" /\ ~moveToCart(wishlists[LazyUser], productId).found
     THEN /\ pc' = [pc EXCEPT ![r] = "done"]
          /\ resp' = Response(kind, LazyUser, 404, 0)
          /\ UNCHANGED wishlists
     ELSE /\ pc' = [pc EXCEPT ![r] = "find"]
          /\ wishlists' = IF kind = "moveToCart"
                          THEN [wishlists EXCEPT ![LazyUser] =
                                  moveToCart(@, productId).wishlist]
                          ELSE wishlists
          /\ UNCHANGED resp
  /\ UNCHANGED <<products, carts, orders, nreq, accounts, extraCarts>>

\* let cart = await Cart.findOne({ user: req.user.id })
LzFind(r) ==
  /\ pc[r] = "find"
  /\ loc' = [loc EXCEPT ![r] = [@ EXCEPT !.cart = carts[LazyUser], !.doc = 1]]
  /\ pc' = [pc EXCEPT ![r] = IF carts[LazyUser].exists THEN "ready" ELSE "create"]
  /\ UNCHANGED <<products, carts, orders, resp, nreq, wishlists, accounts, extraCarts>>

\* if (!cart) cart = await Cart.create({ user: req.user.id }); loc.doc is the
\* document the request holds: 1 is carts[user], a larger one a further document
LzCreate(r) ==
  /\ pc[r] = "create"
  /\ CreateInserts(LazyUser)
  /\ carts' = [carts EXCEPT ![LazyUser] = IF @.exists THEN @ ELSE NewCart]
  /\ loc' = [loc EXCEPT ![r] = [@ EXCEPT !.cart = NewCart,
                                         !.doc = 1 + extraCarts'[LazyUser]]]
  /\ pc' = [pc EXCEPT ![r] = "ready"]
  /\ UNCHANGED <<products, orders, resp, nreq, wishlists, accounts>>

\* the rest of the handler: the item write of add item, merge (a guest cart of
\* one item) and move-to-cart goes to the document the request holds, then
\* the response
LzFinish(r, quantity) ==
  /\ pc[r] = "ready"
  /\ LET new == addItem(carts[LazyUser], loc[r].product, quantity, NoVariant) IN
     IF loc[r].kind = "getCart" \/ loc[r].doc # 1
     THEN UNCHANGED carts
     ELSE /\ Len(new.items) <= MaxItems
          /\ \A i \in 1..Len(new.items) : new.items[i].quantity <= MaxQty
          /\ carts' = [carts EXCEPT ![LazyUser] = new]
  /\ pc' = [pc EXCEPT ![r] = "done"]
  /\ resp' = Response(loc[r].kind, LazyUser,
                      IF loc[r].kind = "addItem" THEN 201 ELSE 200, 0)
  /\ UNCHANGED <<products, orders, loc, nreq, wishlists, accounts, extraCarts>>

\* the user has no cart yet and a wishlist filled by POST /api/wishlist/items
InitLazy ==
  /\ products = InitProducts
  /\ carts = [u \in Users |-> NoCart]
  /\ orders = <<>>
  /\ resp = Response("none", "u1", 0, 0)
  /\ nreq = 0
  /\ pc = [r \in Procs |-> "idle"]
  /\ loc = [r \in Procs |-> IdleLoc]
  /\ \E ps \in SUBSET ProductIds :
       wishlists = [u \in Users |->
                      IF u = LazyUser
                      THEN [NewWishlist EXCEPT !.items =
                              {[product |-> p, variant |-> NoVariant] : p \in ps}]
                      ELSE NoWishlist]
  /\ accounts = [e \in Emails |-> NoAccount]
  /\ extraCarts = [u \in Users |-> 0]

NextLazy ==
  \/ \E r \in Procs, k \in LazyKinds, p \in ProductIds : LzBegin(r, k, p)
  \/ \E r \in Procs : LzFind(r)
  \/ \E r \in Procs : LzCreate(r)
  \/ \E r \in Procs, q \in 1..MaxQty : LzFinish(r, q)

SpecLazy == InitLazy /\ [][NextLazy]_vars

(***************************************************************************)
(* SpecWish: the wishlists of two users, their sharing, and the            *)
(* unauthenticated read by share token.                                    *)
(***************************************************************************)
Sharers == {"u1", "u2"}

NextWish ==
  \/ \E u \in Sharers : GetWishlist(u)
  \/ \E u \in Sharers, p \in ProductIds \cup {"px"} : WishlistAdd(u, p)
  \/ \E u \in Sharers, p \in ProductIds : WishlistRemove(u, p)
  \/ \E u \in Sharers : WishlistClear(u)
  \/ \E u \in Sharers, t \in Tokens : ShareWishlist(u, t)
  \/ \E u \in Sharers : RevokeShare(u)
  \/ \E t \in Tokens : SharedWishlist(t)

SpecWish == Init /\ [][NextWish]_vars

(***************************************************************************)
(* SpecStepFail: SpecStep with carts of up to two lines and with database  *)
(* calls that fail: a rejected await ends the request (asyncHandler passes *)
(* the error to the error handler, which answers 500).                     *)
(***************************************************************************)

\* an await of POST /api/orders rejects
CoFail(r) ==
  /\ pc[r] \in {"validate", "create", "find", "save", "clear"}
  /\ pc' = [pc EXCEPT ![r] = "done"]
  /\ resp' = Response("checkout", ReqUser(r), 500, 0)
  /\ UNCHANGED <<products, carts, orders, loc, nreq, wishlists, accounts, extraCarts>>

\* carts of two lines
StepCartsTwo ==
  { [NewCart EXCEPT !.items = <<[product |-> "p1", quantity |-> 1, variant |-> v],
                                [product |-> p, quantity |-> 1, variant |-> NoVariant]>>,
                    !.coupon = c] :
      v \in {"L"}, p \in ProductIds, c \in {NoCoupon} \cup Coupons }

InitStepFail ==
  /\ products = InitProducts
  /\ \E c1 \in StepCarts \cup StepCartsTwo, c2 \in StepCarts :
       carts = [u \in Users |-> IF u = "u1" THEN c1 ELSE IF u = "u2" THEN c2 ELSE NoCart]
  /\ orders = <<>>
  /\ resp = Response("none", "u1", 0, 0)
  /\ nreq = 0
  /\ pc = [r \in Procs |-> "idle"]
  /\ loc = TwoUsersLoc
  /\ wishlists = [u \in Users |-> NoWishlist]
  /\ accounts = [e \in Emails |-> NoAccount]
  /\ extraCarts = [u \in Users |-> 0]

NextStepFail ==
  \/ NextStep
  \/ \E r \in Procs : CoFail(r)

SpecStepFail == InitStepFail /\ [][NextStepFail]_vars

(***************************************************************************)
(* SpecShip: checkouts with every kind of shippingMethod, in the request   *)
(* and on the cart.                                                        *)
(***************************************************************************)

\* req.body.shippingMethod of POST /api/orders: absent, a method of the rate
\* table, a method outside it, or a name every object inherits
ShipRequests == {NoShipping, "standard", "express", "overnight", "bogus", "constructor"}

\* guest carts that carry a shippingMethod, which the merge route copies
GuestCartsShip ==
  { [items |-> <<[product |-> "p2", quantity |-> 1, variant |-> NoVariant]>>,
     coupon |-> NoCoupon, shippingMethod |-> m] : m \in {"overnight", "bogus"} }

NextShip ==
  \/ \E u \in Shoppers, p \in ProductIds : AddItem(u, p, 1, NoVariant)
  \/ \E u \in Shoppers, m \in ShippingMethods : SetShipping(u, m)
  \/ \E u \in Shoppers, g \in GuestCartsShip : Merge(u, g)
  \/ \E u \in Shoppers, s \in ShipRequests : Checkout(u, s)

SpecShip == Init /\ [][NextShip]_vars

(***************************************************************************)
(* SpecStock: checkouts, cancels and status updates, each run to           *)
(* completion, by the owner and an admin.                                  *)
(***************************************************************************)
NextStock ==
  \/ \E u \in Shoppers, p \in ProductIds, q \in 1..MaxQty : AddItem(u, p, q, NoVariant)
  \/ \E u \in Shoppers : Checkout(u, NoShipping)
  \/ \E u \in Users, o \in OrderIds : Cancel(u, o)
  \/ \E u \in Users, o \in OrderIds, s \in {"confirmed", "shipped", "cancelled"} :
       UpdateStatus(u, o, s, NoTracking)

SpecStock == Init /\ [][NextStock]_vars

(***************************************************************************)
(* SpecCancel: two requests PUT /api/orders/:id/cancel, interleaved; every *)
(* database read and every database write is a step of its own.           *)
(***************************************************************************)

\* the item the request's restore loop is at
CaItem(r) == orders[loc[r].order].items[loc[r].i]

\* the position after the restore loop's round i
CaAfterRound(r) ==
  IF loc[r].i = Len(orders[loc[r].order].items) THEN "respond" ELSE "find"

\* Order.findById(req.params.id), then the 404, 403 and 400 returns
CaLoad(r, u, o) ==
  /\ pc[r] = "idle"
  /\ IF o \notin 1..Len(orders)
     THEN /\ pc' = [pc EXCEPT ![r] = "done"]
          /\ resp' = Response("cancel", u, 404, o)
          /\ UNCHANGED loc
     ELSE IF orders[o].user # u /\ Role(u) # "admin"
     THEN /\ pc' = [pc EXCEPT ![r] = "done"]
          /\ resp' = Response("cancel", u, 403, o)
          /\ UNCHANGED loc
     ELSE IF CancelRejected(orders[o])
     THEN /\ pc' = [pc EXCEPT ![r] = "done"]
          /\ resp' = Response("cancel", u, 400, o)
          /\ UNCHANGED loc
     ELSE /\ pc' = [pc EXCEPT ![r] = "status"]
          /\ loc' = [loc EXCEPT ![r] = [@ EXCEPT !.order = o, !.user = u, !.i = 1]]
          /\ UNCHANGED resp
  /\ UNCHANGED <<products, carts, orders, nreq, wishlists, accounts, extraCarts>>

\* await order.updateStatus('cancelled')
CaStatus(r) ==
  /\ pc[r] = "status"
  /\ orders' = [orders EXCEPT ![loc[r].order] = updateStatus(@, "cancelled")]
  /\ pc' = [pc EXCEPT ![r] = "find"]
  /\ UNCHANGED <<products, carts, resp, nreq, loc, wishlists, accounts, extraCarts>>

\* Product.findById(item.product)
CaFind(r) ==
  /\ pc[r] = "find"
  /\ LET p == products[CaItem(r).product] IN
     IF p.trackQuantity
     THEN /\ loc' = [loc EXCEPT ![r] = [@ EXCEPT !.prod = p]]
          /\ pc' = [pc EXCEPT ![r] = "save"]
     ELSE /\ loc' = [loc EXCEPT ![r] = [@ EXCEPT !.i = @ + 1]]
          /\ pc' = [pc EXCEPT ![r] = CaAfterRound(r)]
  /\ UNCHANGED <<products, carts, orders, resp, nreq, wishlists, accounts, extraCarts>>

\* product.updateStock(item.quantity, 'increase'); product.save(): the
\* quantity computed from the document read by CaFind is written back
CaSave(r) ==
  /\ pc[r] = "save"
  /\ products' = [products EXCEPT ![CaItem(r).product].quantity =
                    updateStock(loc[r].prod, CaItem(r).quantity, "increase").quantity]
  /\ loc' = [loc EXCEPT ![r] = [@ EXCEPT !.i = @ + 1]]
  /\ pc' = [pc EXCEPT ![r] = CaAfterRound(r)]
  /\ UNCHANGED <<carts, orders, resp, nreq, wishlists, accounts, extraCarts>>

\* res.status(200).json(...)
CaRespond(r) ==
  /\ pc[r] = "respond"
  /\ pc' = [pc EXCEPT ![r] = "done"]
  /\ resp' = Response("cancel", loc[r].user, 200, loc[r].order)
  /\ UNCHANGED <<products, carts, orders, loc, nreq, wishlists, accounts, extraCarts>>

\* the carts u1 checked out before the cancel requests arrive
CancelCarts ==
  { [NewCart EXCEPT !.items = its] :
      its \in { <<[product |-> p, quantity |-> q, variant |-> NoVariant]>> :
                  p \in ProductIds, q \in 1..MaxQty }
              \cup { <<[product |-> "p1", quantity |-> q, variant |-> NoVariant],
                       [product |-> "p2", quantity |-> 1, variant |-> NoVariant]>> :
                       q \in 1..MaxQty } }

\* the state after one checkout of u1 and, possibly, status updates of the
\* order by an admin
InitCancel ==
  /\ \E c \in CancelCarts, st \in {"pending", "processing", "shipped"} :
       /\ orders = <<[NewOrder("u1", c, InitProducts, NoShipping) EXCEPT !.status = st]>>
       /\ products = DecrementStock(c.items, 1, InitProducts)
       /\ carts = [u \in Users |-> IF u = "u1" THEN CartAfterCheckout(c) ELSE NoCart]
  /\ resp = Response("none", "u1", 0, 0)
  /\ nreq = 0
  /\ pc = [r \in Procs |-> "idle"]
  /\ loc = [r \in Procs |-> IdleLoc]
  /\ wishlists = [u \in Users |-> NoWishlist]
  /\ accounts = [e \in Emails |-> NoAccount]
  /\ extraCarts = [u \in Users |-> 0]

NextCancel ==
  \/ \E r \in Procs, u \in Users, o \in OrderIds : CaLoad(r, u, o)
  \/ \E r \in Procs : CaStatus(r)
  \/ \E r \in Procs : CaFind(r)
  \/ \E r \in Procs : CaSave(r)
  \/ \E r \in Procs : CaRespond(r)

SpecCancel == InitCancel /\ [][NextCancel]_vars

(***************************************************************************)
(* SpecSame: two checkouts of one user on the same cart, interleaved, with *)
(* the steps of SpecStep.                                                  *)
(***************************************************************************)
InitSame ==
  /\ products = InitProducts
  /\ \E c \in StepCarts \cup StepCartsTwo :
       carts = [u \in Users |-> IF u = "u1" THEN c ELSE NoCart]
  /\ orders = <<>>
  /\ resp = Response("none", "u1", 0, 0)
  /\ nreq = 0
  /\ pc = [r \in Procs |-> "idle"]
  /\ loc = [r \in Procs |-> IdleLoc]
  /\ wishlists = [u \in Users |-> NoWishlist]
  /\ accounts = [e \in Emails |-> NoAccount]
  /\ extraCarts = [u \in Users |-> 0]

SpecSame == InitSame /\ [][NextStep]_vars

(***************************************************************************)
(* SpecCoupon: checkouts of carts with every kind of coupon the coupon     *)
(* route accepts or the merge route copies.                                *)
(***************************************************************************)

\* coupons that pass body('discount').isFloat({ min: 0 }) and
\* body('type').isIn(['percentage', 'fixed']): also more than 100 percent
\* and a fixed amount above any subtotal
CouponsAny ==
  Coupons \cup { [code |-> "ZERO", discount |-> 0,        type |-> "fixed"],
                 [code |-> "DBL",  discount |-> 200,      type |-> "percentage"],
                 [code |-> "BIG",  discount |-> 50000000, type |-> "fixed"] }

\* guest carts that carry a coupon, which the merge route applies unchecked
GuestCartsCoupon ==
  { [items |-> <<[product |-> "p2", quantity |-> 1, variant |-> NoVariant]>>,
     coupon |-> c, shippingMethod |-> NoShipping] : c \in CouponsAny }

NextCoupon ==
  \/ \E u \in Shoppers, p \in ProductIds, q \in 1..MaxQty : AddItem(u, p, q, NoVariant)
  \/ \E u \in Shoppers, c \in CouponsAny : ApplyCoupon(u, c)
  \/ \E u \in Shoppers : RemoveCoupon(u)
  \/ \E u \in Shoppers, g \in GuestCartsCoupon : Merge(u, g)
  \/ \E u \in Shoppers : Checkout(u, NoShipping)

SpecCoupon == Init /\ [][NextCoupon]_vars

(***************************************************************************)
(* SpecAuth: registration, logins with any password and requests behind    *)
(* the protect middleware.                                                 *)
(***************************************************************************)
NextAuth ==
  \/ \E e \in Emails, t \in Tokens : Register(e, t)
  \/ \E e \in Emails, pw \in Passwords : Login(e, pw)
  \/ \E e \in Emails, h \in BOOLEAN : AuthGetCart(e, h)

SpecAuth == Init /\ [][NextAuth]_vars

(***************************************************************************)
(* Properties.  In Spec every step serves one request and sets resp to its *)
(* response, so resp' names the request a step served.                     *)
(***************************************************************************)

\* the step served a request `op` of user u
Served(op, u) == nreq' # nreq /\ resp'.op = op /\ resp'.user = u

\* total quantity of product p over the lines `items`
RECURSIVE QtyOf(_, _, _)
QtyOf(items, i, p) ==
  IF i > Len(items) THEN 0
  ELSE (IF items[i].product = p THEN items[i].quantity ELSE 0) + QtyOf(items, i + 1, p)

\* quantity of the line (p, v) of `items`, 0 when there is none
LineQty(items, p, v) ==
  IF \E i \in 1..Len(items) : items[i].product = p /\ items[i].variant = v
  THEN (CHOOSE it \in {items[i] : i \in 1..Len(items)} :
          it.product = p /\ it.variant = v).quantity
  ELSE 0

\* total quantity of product p over the items of the orders i..Len(orders)
RECURSIVE SoldQty(_, _)
SoldQty(i, p) ==
  IF i > Len(orders) THEN 0 ELSE QtyOf(orders[i].items, 1, p) + SoldQty(i + 1, p)

\* sum over the order items of (price + variant price adjustment) * quantity
RECURSIVE LineSum(_, _)
LineSum(items, i) ==
  IF i > Len(items) THEN 0
  ELSE (items[i].price + PriceAdjustment(items[i].variant)) * items[i].quantity
         + LineSum(items, i + 1)

\* round(x, 2) of an amount in 1/10000 dollar
Round2(x) == ((x + 50) \div 100) * 100

\* C1: when validateStock() reports the cart invalid at checkout, POST
\* /api/orders answers 400 listing the issues, and no Order is persisted, no
\* product changes and the carts are unchanged.
C1_InvalidStockAborts ==
  [][ \A u \in Users :
        ( /\ Served("checkout", u)
          /\ ~CartIsEmpty(carts[u])
          /\ ~validateStock(carts[u], products).isValid )
        => ( /\ resp'.code = 400
             /\ resp'.issues = validateStock(carts[u], products).issues
             /\ resp'.issues # {}
             /\ orders' = orders
             /\ products' = products
             /\ carts' = carts ) ]_vars

\* a checkout was refused because an active product's stock is short
C1_Witness ==
  /\ resp.op = "checkout" /\ resp.code = 400
  /\ \E i \in resp.issues :
       LET it == carts[resp.user].items[i] IN
       /\ products[it.product].status = "active"
       /\ products[it.product].trackQuantity
       /\ products[it.product].quantity < it.quantity

\* C2: after any sequence of requests run to completion, every product that
\* tracks quantity and disallows backorders has inventory.quantity >= 0.
C2_StockNeverNegative ==
  \A p \in DOMAIN products :
    (products[p].trackQuantity /\ ~products[p].allowBackorders)
      => products[p].quantity >= 0

\* C3: under any interleaving of two checkouts by different users, a tracked
\* product without backorders never has a negative quantity and the quantity
\* sold in persisted orders never exceeds the stock that was available.
C3_NoOversell ==
  \A p \in DOMAIN products :
    (products[p].trackQuantity /\ ~products[p].allowBackorders)
      => /\ products[p].quantity >= 0
         /\ SoldQty(1, p) <= InitStock

\* C4: every order has total = subtotal + tax + shippingCost - discount with
\* tax = round(subtotal * 0.08, 2) and subtotal the sum over items of
\* (price + variant price adjustment) * quantity.
C4_TotalsFormula ==
  \A o \in 1..Len(orders) :
    LET ord == orders[o] IN
    /\ ord.total = ord.subtotal + ord.tax + ord.shippingCost - ord.discount
    /\ ord.tax = Round2((ord.subtotal * 8) \div 100)
    /\ ord.subtotal = LineSum(ord.items, 1)

\* C5: the discount of the order a checkout creates is derived from the
\* cart's coupon alone: 0 without coupon, subtotal * discount / 100 for a
\* percentage coupon, the coupon's discount for a fixed one; 10% on a
\* subtotal of 200.00 with standard shipping gives 20.00 and a total of 201.99.
C5_DiscountFromCoupon ==
  [][ \A u \in Users :
        (Served("checkout", u) /\ resp'.code = 201)
        => LET ord == orders'[resp'.order]
               c   == carts[u].coupon
           IN  /\ (c = NoCoupon) => ord.discount = 0
               /\ (c.type = "percentage") => ord.discount * 100 = ord.subtotal * c.discount
               /\ (c.type = "fixed") => ord.discount = c.discount
               /\ ( /\ c.type = "percentage" /\ c.discount = 10
                    /\ ord.subtotal = 2000000 /\ ord.shippingMethod = "standard" )
                  => (ord.discount = 200000 /\ ord.total = 2019900) ]_vars

\* the 10% scenario: subtotal 200.00, discount 20.00, total 201.99
C5_Witness ==
  /\ resp.op = "checkout" /\ resp.code = 201
  /\ orders[resp.order].subtotal = 2000000
  /\ orders[resp.order].discount = 200000
  /\ orders[resp.order].total = 2019900

\* C6: after a successful checkout the user's cart still exists and has no
\* items and no coupon, however many items it held.
C6_CartClearedAfterCheckout ==
  (resp.op = "checkout" /\ resp.code = 201)
    => /\ carts[resp.user].exists
       /\ carts[resp.user].items = <<>>
       /\ carts[resp.user].coupon = NoCoupon

\* a checkout of a cart with two lines and a coupon has succeeded
C6_Witness ==
  /\ resp.op = "checkout" /\ resp.code = 201
  /\ Len(orders[resp.order].items) = 2
  /\ orders[resp.order].discount > 0

\* C7: a successful cancel increases the quantity of every product that
\* tracks quantity by exactly the quantity ordered of it and changes no other
\* product; a successful checkout decreases it by exactly that quantity, so
\* that a checkout followed by its cancel restores every tracked quantity.
C7_CancelRestoresStock ==
  [][ \A u \in Users :
        /\ (Served("cancel", u) /\ resp'.code = 200)
           => \A p \in DOMAIN products :
                products'[p] =
                  [products[p] EXCEPT !.quantity =
                     IF products[p].trackQuantity
                     THEN @ + QtyOf(orders[resp'.order].items, 1, p) ELSE @]
        /\ (Served("checkout", u) /\ resp'.code = 201)
           => \A p \in DOMAIN products :
                products'[p] =
                  [products[p] EXCEPT !.quantity =
                     IF products[p].trackQuantity
                     THEN @ - QtyOf(orders'[resp'.order].items, 1, p) ELSE @] ]_vars

\* an order of a tracked and an untracked product was cancelled and the
\* tracked product is back at its initial quantity
C7_Witness ==
  /\ resp.op = "cancel" /\ resp.code = 200
  /\ QtyOf(orders[resp.order].items, 1, "p1") > 0
  /\ QtyOf(orders[resp.order].items, 1, "p2") > 0
  /\ products["p1"].quantity = InitStock

\* C8: a cancel request succeeds only for an order that is pending, confirmed
\* or processing; on an order of any other status it fails (400 for the owner
\* or an admin) and leaves every order and every product unchanged.
C8_CancelGuard ==
  [][ \A u \in Users :
        (Served("cancel", u) /\ resp'.order \in 1..Len(orders))
        => LET ord        == orders[resp'.order]
               authorized == ord.user = u \/ Role(u) = "admin"
               open       == ord.status \in {"pending", "confirmed", "processing"}
           IN  /\ (resp'.code = 200) <=> (authorized /\ open)
               /\ (authorized /\ ~open) => resp'.code = 400
               /\ ~open => (orders' = orders /\ products' = products) ]_vars

\* a cancel of a shipped order was refused with 400
C8_Witness ==
  /\ resp.op = "cancel" /\ resp.code = 400
  /\ orders[resp.order].status = "shipped"

\* C9 as stated: whatever operation changes it, an order enters status
\* cancelled only from pending, confirmed or processing (so never directly
\* from shipped).
C9_CancelledOnlyFromOpen ==
  [][ \A o \in 1..Len(orders) :
        (orders'[o].status = "cancelled" /\ orders[o].status # "cancelled")
        => orders[o].status \in {"pending", "confirmed", "processing"} ]_vars

\* C9 amended: through the cancel route an order enters status cancelled only
\* from pending, confirmed or processing; from any other status it enters
\* cancelled only through the admin status route or the admin bulk
\* updateStatus operation, requested by an admin.
C9_CancelRouteOnlyFromOpen ==
  [][ \A o \in 1..Len(orders) :
        (orders'[o].status = "cancelled" /\ orders[o].status # "cancelled")
        => \/ /\ resp'.op = "cancel"
              /\ orders[o].status \in {"pending", "confirmed", "processing"}
           \/ /\ resp'.op \in {"status", "bulkOrders"}
              /\ Role(resp'.user) = "admin" ]_vars

\* the owner has cancelled an order through the cancel route
C9_Witness ==
  /\ resp.op = "cancel" /\ resp.code = 200
  /\ resp.user = orders[resp.order].user
  /\ orders[resp.order].status = "cancelled"

\* C10: a quantity update to 0 for a line the cart holds succeeds, leaves the
\* cart without that line and changes no other line.
C10_UpdateToZeroRemoves ==
  [][ \A u \in Users :
        ( /\ Served("updateQuantity", u)
          /\ resp'.req.quantity = 0
          /\ carts[u].exists
          /\ LineQty(carts[u].items, resp'.req.product, resp'.req.variant) > 0 )
        => /\ resp'.code = 200
           /\ carts'[u].exists
           /\ \A p \in ProductIds, v \in Variants :
                LineQty(carts'[u].items, p, v) =
                  IF p = resp'.req.product /\ v = resp'.req.variant
                  THEN 0 ELSE LineQty(carts[u].items, p, v)
           /\ Len(carts'[u].items) = Len(carts[u].items) - 1
           /\ carts'[u].coupon = carts[u].coupon ]_vars

\* a quantity update to 0 matched a line and another line is still there
C10_Witness ==
  /\ resp.op = "updateQuantity" /\ resp.code = 200
  /\ resp.req.quantity = 0 /\ resp.req.matched
  /\ Len(carts[resp.user].items) = 1
  /\ LineQty(carts[resp.user].items, resp.req.product, resp.req.variant) = 0

\* C11: in every reachable state every item of every persisted cart has
\* quantity >= 1, whichever route put it there: add item, update quantity,
\* guest-cart merge and wishlist move-to-cart.
C11_QuantityAtLeastOne ==
  \A u \in Users :
    \A i \in 1..Len(carts[u].items) : carts[u].items[i].quantity >= 1

\* C12: a successful move-to-cart of product P leaves the wishlist without P
\* and the cart with the line for P (under the supplied variant, or the
\* wishlist item's own variant when none is supplied) increased by the
\* requested quantity (1 when none is supplied), every other line as it was;
\* a well-formed request for a P the wishlist does not hold answers 404 and
\* changes neither the wishlist nor the cart.
C12_MoveToCart ==
  [][ \A u \in Users :
        Served("moveToCart", u) =>
          LET p == resp'.req.product IN
          /\ resp'.code = 200 =>
               LET original == (CHOOSE it \in wishlists[u].items : it.product = p).variant
                   v == IF resp'.req.variant # NoVariant THEN resp'.req.variant
                        ELSE original
               IN  /\ hasItem(wishlists[u], p)
                   /\ ~hasItem(wishlists'[u], p)
                   /\ wishlists'[u].items = {it \in wishlists[u].items : it.product # p}
                   /\ carts'[u].exists
                   /\ \A p2 \in ProductIds, v2 \in Variants :
                        LineQty(carts'[u].items, p2, v2) =
                          LineQty(carts[u].items, p2, v2)
                            + (IF p2 = p /\ v2 = v THEN resp'.req.quantity ELSE 0)
          /\ (resp'.req.quantity >= 1 /\ ~resp'.req.matched) =>
               /\ resp'.code = 404
               /\ wishlists' = wishlists
               /\ carts' = carts ]_vars

\* a move-to-cart with no variant and no quantity supplied raised an existing
\* cart line from 1 to 2 and took the product off the wishlist
C12_Witness ==
  /\ resp.op = "moveToCart" /\ resp.code = 200
  /\ resp.req.variant = NoVariant /\ resp.req.quantity = 1
  /\ LineQty(carts[resp.user].items, resp.req.product, NoVariant) = 2
  /\ ~hasItem(wishlists[resp.user], resp.req.product)

\* what checkout captured in an order: the items' product, price, quantity,
\* variant and totalPrice, and the order's amounts
Snapshot(order) ==
  [items |-> order.items, subtotal |-> order.subtotal, tax |-> order.tax,
   shippingCost |-> order.shippingCost, discount |-> order.discount,
   total |-> order.total]

\* C13: once an order is created, its items' captured price, quantity and
\* totalPrice and its subtotal, tax, shippingCost, discount and total are
\* changed by no later operation: product price changes (admin bulk
\* updatePrices), status updates and cancellation leave them as they were.
C13_OrderSnapshotKept ==
  [][ \A o \in 1..Len(orders) :
        /\ o <= Len(orders')
        /\ Snapshot(orders'[o]) = Snapshot(orders[o]) ]_vars

\* a cancelled order whose item still carries the price of its checkout
\* after the product's price was changed
C13_Witness ==
  \E o \in 1..Len(orders) :
    /\ orders[o].status = "cancelled"
    /\ orders[o].items[1].price # products[orders[o].items[1].product].price
    /\ orders[o].items[1].price = InitProducts[orders[o].items[1].product].price

\* C14: a failure of the notification sender never fails the request that
\* triggered it: when sendEmail throws in checkout, registration, a
\* shipped-status update or forgot-password, the request still returns its
\* success response and what it persisted before the send is kept.
C14_MailFailureSwallowed ==
  [][ (nreq' # nreq /\ resp'.mail = "threw") =>
        \/ /\ resp'.op = "checkout" /\ resp'.code = 201
           /\ Len(orders') = Len(orders) + 1
           /\ carts'[resp'.user].items = <<>>
        \/ /\ resp'.op = "register" /\ resp'.code = 201
           /\ accounts'[resp'.user].exists
           /\ accounts'[resp'.user].verificationToken # NoToken
        \/ /\ resp'.op = "status" /\ resp'.code = 200
           /\ orders'[resp'.order].status = "shipped"
        \/ /\ resp'.op = "forgotPassword" /\ resp'.code = 200
           /\ accounts'[resp'.user].resetPasswordToken # NoToken ]_vars

\* C15: an order is read (GET /api/orders/:id) or cancelled (PUT
\* /api/orders/:id/cancel) only by its owner or by the admin, and its status
\* is set through PUT /api/orders/:id/status only by the admin; any other
\* authenticated user gets 403 and the orders and all stock stay as they are.
C15_OwnerOrAdminOnly ==
  [][ \A u \in Users :
        LET o       == resp'.order
            exists  == o \in 1..Len(orders)
            allowed == exists /\ (orders[o].user = u \/ u = "admin")
        IN
        /\ (Served("getOrder", u) \/ Served("cancel", u)) =>
             /\ resp'.code = 200 => allowed
             /\ (exists /\ ~allowed) =>
                  /\ resp'.code = 403
                  /\ orders' = orders
                  /\ products' = products
        /\ Served("status", u) =>
             /\ resp'.code = 200 => u = "admin"
             /\ u # "admin" =>
                  /\ resp'.code = 403
                  /\ orders' = orders
                  /\ products' = products ]_vars

\* a user who is neither the owner nor the admin was refused the
\* cancellation of a pending order, whose stock stays taken
C15_Witness ==
  /\ resp.op = "cancel" /\ resp.code = 403 /\ resp.user = "u2"
  /\ resp.order \in 1..Len(orders)
  /\ orders[resp.order].user = "u1"
  /\ orders[resp.order].status = "pending"
  /\ orders[resp.order].items[1].product = "p1"
  /\ products["p1"].quantity = InitStock - orders[resp.order].items[1].quantity

\* C16: in every reachable state each user has at most one Cart document,
\* and a Cart document, once created, is never deleted; also when two
\* requests of the same user that create the cart lazily interleave between
\* their findOne and create steps.
C16_OneCartPerUser ==
  /\ [](\A u \in Users : extraCarts[u] = 0)
  /\ [][\A u \in Users : carts[u].exists => carts'[u].exists]_vars

\* C17: GET /api/wishlist/shared/:token succeeds only when the token is the
\* current share token of a wishlist that is public; after the owner revokes
\* sharing (DELETE /api/wishlist/share) the wishlist is not public and
\* carries no token, and no token grants access to it until the owner
\* generates a new one.
C17_SharedAccess ==
  [][ /\ (nreq' # nreq /\ resp'.op = "shared" /\ resp'.code = 200) =>
           /\ resp'.user \in Users
           /\ wishlists[resp'.user].exists
           /\ wishlists[resp'.user].isPublic
           /\ wishlists[resp'.user].shareToken = resp'.req.token
      /\ \A u \in Users :
           /\ (Served("revokeShare", u) /\ resp'.code = 200) =>
                /\ ~wishlists'[u].isPublic
                /\ wishlists'[u].shareToken = NoToken
           /\ ( /\ \A t \in Tokens : u \notin findByShareToken(t)
                /\ ~(Served("share", u) /\ resp'.code = 200) ) =>
                \A t \in Tokens :
                  ~( /\ wishlists'[u].exists
                     /\ wishlists'[u].isPublic
                     /\ wishlists'[u].shareToken = t ) ]_vars

\* sharing of a wishlist that carried token t1 has just been revoked, and t1
\* finds no wishlist any more
C17_Witness ==
  /\ resp.op = "revokeShare" /\ resp.code = 200
  /\ resp.req.token = "t1"
  /\ wishlists[resp.user].items # {}
  /\ findByShareToken("t1") = {}

\* the products of which the step put an item into the cart of u: a new line,
\* or a line whose quantity it changed by adding to it
Entered(u) ==
  { carts'[u].items[i].product : i \in
      { j \in 1..Len(carts'[u].items) :
          LET it == carts'[u].items[j] IN
          \/ FindItem(carts[u].items, it.product, it.variant) = 0
          \/ /\ resp'.op \in {"addItem", "merge", "moveToCart"}
             /\ LineQty(carts[u].items, it.product, it.variant) # it.quantity } }

\* C18: an item enters a cart only for a product that exists and is active at
\* the time of the add, through every route that adds items (add item,
\* guest-cart merge, wishlist move-to-cart); adding a non-existent product
\* fails with 404, a non-active one with 400, and the cart is unchanged.
C18_OnlyActiveProductsEnter ==
  [][ \A u \in Users :
        /\ \A p \in Entered(u) :
             p \in DOMAIN products /\ products[p].status = "active"
        /\ ( /\ nreq' # nreq /\ resp'.user = u
             /\ resp'.op \in {"addItem", "moveToCart"}
             /\ resp'.code \in {400, 404} ) => carts'[u] = carts[u] ]_vars

\* the step is one of request r
StepOf(r) == pc'[r] # pc[r] \/ loc'[r] # loc[r]

C20_StockOnlyAtCheckoutAndCancel ==
  [][ \A p \in DOMAIN products :
        (p \in DOMAIN products' /\ products'[p].quantity # products[p].quantity)
        => /\ nreq' # nreq
           /\ \/ resp'.op = "checkout" /\ resp'.code = 201
              \/ resp'.op = "cancel" /\ resp'.code = 200 ]_vars

\* a cart holding a line of a tracked product was validated (200) after an
\* earlier checkout had taken stock of that product
C20_Witness ==
  /\ resp.op = "validate" /\ resp.code = 200
  /\ \E i \in 1..Len(carts[resp.user].items) :
       LET p == carts[resp.user].items[i].product
       IN  /\ p \in DOMAIN products
           /\ products[p].trackQuantity
           /\ products[p].quantity \in 1..(InitStock - 1)

\* the (product, variant) pairs of a cart's lines are pairwise different
UniquePairs(items) ==
  \A i, j \in 1..Len(items) :
    (items[i].product = items[j].product /\ items[i].variant = items[j].variant) => i = j

\* C21: in every reachable state a cart holds at most one item per (product,
\* variant) pair, over any sequence of add item, merge and move-to-cart (and
\* the other cart requests); an accepted add item either appends a line of a
\* pair the cart did not hold or raises the quantity of the one line of its
\* pair and leaves the number of lines as it was.
C21_OneItemPerPair ==
  /\ [](\A u \in Users : UniquePairs(carts[u].items))
  /\ [][ \A u \in Users :
           (Served("addItem", u) /\ resp'.code = 201)
           => LET old == carts[u].items  new == carts'[u].items
              IN  \/ /\ Len(new) = Len(old) + 1
                     /\ SubSeq(new, 1, Len(old)) = old
                     /\ FindItem(old, new[Len(new)].product, new[Len(new)].variant) = 0
                  \/ /\ Len(new) = Len(old)
                     /\ \E i \in 1..Len(old) :
                          /\ new[i].product = old[i].product
                          /\ new[i].variant = old[i].variant
                          /\ new[i].quantity > old[i].quantity
                          /\ \A j \in 1..Len(old) : j # i => new[j] = old[j] ]_vars

\* a guest line of a pair the cart already held was merged into that line:
\* one line of quantity 2 after a merge that added 1
C21_Witness ==
  /\ resp.op = "merge" /\ resp.code = 200
  /\ Len(carts[resp.user].items) = 1
  /\ carts[resp.user].items[1].product = "p1"
  /\ carts[resp.user].items[1].quantity = 2

\* C22: an order's trackingNumber is set only when the order is shipped: a
\* request that sets or changes the trackingNumber of an order leaves that
\* order with status shipped, so every order holding a trackingNumber has, or
\* has had, status shipped; a status update to any other status sets none.
C22_TrackingOnlyWhenShipped ==
  [][ \A o \in 1..Len(orders) :
        (o <= Len(orders') /\ orders'[o].trackingNumber # orders[o].trackingNumber)
        => orders'[o].status = "shipped" ]_vars

\* the statuses the lifecycle names as final
TerminalStatuses == {"cancelled", "returned", "delivered"}

C24_StatusEnumerated ==
  /\ [](\A o \in 1..Len(orders) : orders[o].status \in OrderStatuses)
  /\ [][ \A u \in Users :
           (Served("status", u) /\ resp'.code = 400) => orders' = orders ]_vars

\* C25: the shippingCost of an order is looked up from the table standard
\* 5.99, express 12.99, overnight 24.99 by the request's shippingMethod when
\* the request gives one and by the cart's shippingMethod otherwise, and is
\* 5.99 for a method that is not in the table; the order stores the method
\* the lookup used.
C25_ShippingCostFromTable ==
  [][ \A u \in Users :
        (Served("checkout", u) /\ resp'.code = 201)
        => LET order == orders'[resp'.order]
               used  == IF resp'.req.shipping # NoShipping
                        THEN resp'.req.shipping
                        ELSE carts[u].shippingMethod
           IN  /\ order.shippingMethod = used
               /\ used = "standard" => order.shippingCost = 59900
               /\ used = "express" => order.shippingCost = 129900
               /\ used = "overnight" => order.shippingCost = 249900
               /\ used \notin {"standard", "express", "overnight"}
                    => order.shippingCost = 59900 ]_vars

\* an order was created for a request that named a method outside the
\* table: 5.99 was charged and the request's method stored; another order
\* was shipped overnight
C25_Witness ==
  /\ resp.op = "checkout" /\ resp.code = 201
  /\ resp.req.shipping = "bogus"
  /\ orders[resp.order].shippingMethod = "bogus"
  /\ orders[resp.order].shippingCost = 59900
  /\ \E o \in 1..Len(orders) : orders[o].shippingMethod = "overnight"

\* total quantity of product p over the items of the orders i..Len(orders)
\* whose status is not cancelled
RECURSIVE OpenQty(_, _)
OpenQty(i, p) ==
  IF i > Len(orders) THEN 0
  ELSE (IF orders[i].status # "cancelled" THEN QtyOf(orders[i].items, 1, p) ELSE 0)
         + OpenQty(i + 1, p)

\* C26: stock conservation: after any sequence of checkout, cancel and admin
\* status-update requests, each run to completion, the quantity of every
\* product that tracks quantity equals its initial quantity minus the sum of
\* that product's item quantities over all orders that are not cancelled.
C26_StockConservation ==
  \A p \in DOMAIN products :
    products[p].trackQuantity => products[p].quantity = InitStock - OpenQty(1, p)

\* C27: for any single order stock is restored at most once: when two cancel
\* requests for the same order interleave, the quantities of the ordered
\* products are raised by the ordered amounts once in total, so a product
\* that tracks quantity never holds more than it held before the order.
C27_RestoredAtMostOnce ==
  \A p \in DOMAIN products :
    products[p].trackQuantity => products[p].quantity <= InitStock

\* C28: one filling of a cart yields at most one order: when two checkout
\* requests of the same user interleave on the same non-empty cart, at most
\* one Order is persisted and the stock of each product that tracks quantity
\* is lowered by the cart's quantity of it at most once.
C28_OneOrderPerFilling ==
  /\ Len(orders) <= 1
  /\ \A p \in DOMAIN products :
       products[p].trackQuantity
       => products[p].quantity >=
            InitStock - (IF Len(orders) = 0 THEN 0 ELSE QtyOf(orders[1].items, 1, p))

\* C29: every order created by checkout has discount <= subtotal and
\* total >= 0, for every coupon that POST /api/cart/coupon accepts (any
\* discount >= 0 of type percentage or fixed) or that the merge route copies
\* from a guest cart.
C29_DiscountWithinSubtotal ==
  \A o \in 1..Len(orders) :
    /\ orders[o].discount <= orders[o].subtotal
    /\ orders[o].total >= 0

\* C30: while an account is locked, a login request for it (with a password
\* that passes the notEmpty validator, right or wrong) is answered 423,
\* issues no token and changes nothing of the account, loginAttempts
\* included; and a request through protect with the account's token is
\* answered 401 and its handler does not run.
C30_LockedAccountRefused ==
  [][ \A e \in Emails :
        (accounts[e].exists /\ accounts[e].isLocked)
        => /\ (Served("login", e) /\ resp'.req.password # "")
                => /\ resp'.code = 423
                   /\ resp'.req.token = NoToken
                   /\ accounts' = accounts
           /\ Served("authGetCart", e)
                => /\ resp'.code = 401
                   /\ carts' = carts
                   /\ accounts' = accounts ]_vars

\* the right password was refused with 423 for a locked account that has
\* failed attempts on record
C30_Witness ==
  /\ resp.op = "login" /\ resp.code = 423
  /\ resp.req.password = RegisteredPassword
  /\ accounts[resp.user].isLocked
  /\ accounts[resp.user].loginAttempts > 0

====
